---- MODULE Spec2Model ----
(***************************************************************************)
(* ts2rs: the Type Resolver (js/ts2rs/src/resolver.ts).                    *)
(*                                                                         *)
(* The surface program (the declarations the ts-morph project holds) is    *)
(* part of the state: Init draws it from a pool of declarations, and the   *)
(* resolver's methods are operators that thread the resolver's fields      *)
(* (collectedTypes, processingTypes, typeParameters, warnings) and a       *)
(* pending exception through every call, in the order the code makes them. *)
(* One action is one iteration of the loop of resolve().                   *)
(***************************************************************************)
EXTENDS Integers, Sequences, FiniteSets, TLC

(***************************************************************************)
(* Bounds of the model.                                                    *)
(***************************************************************************)
\* longest options.typeNames list drawn by Init
MaxRoots == 2

(***************************************************************************)
(* Syntax: the type nodes of property signatures and alias declarations.   *)
(***************************************************************************)
Kw(text) == [kind |-> "Keyword", text |-> text]
\* a literal type node: lit is the literal's sort, value its characters
NullNode == [kind |-> "LiteralType", lit |-> "null", value |-> <<>>]
StrLit(chars) == [kind |-> "LiteralType", lit |-> "string", value |-> chars]
NumLit(digits) == [kind |-> "LiteralType", lit |-> "number", value |-> digits]
BoolLit(word) == [kind |-> "LiteralType", lit |-> "boolean", value |-> word]
\* an absent type node (getTypeNode() of a property without one)
NoNode == [kind |-> "none"]
\* a reference to a declared name; bound says what the checker binds it to
Ref(name) == [kind |-> "TypeReference", typeName |-> name, typeArguments |-> <<>>, param |-> FALSE]
RefA(name, args) == [kind |-> "TypeReference", typeName |-> name, typeArguments |-> args, param |-> FALSE]
\* a reference the checker binds to a type parameter of the enclosing declaration
TRef(name) == [kind |-> "TypeReference", typeName |-> name, typeArguments |-> <<>>, param |-> TRUE]
Arr(elem) == [kind |-> "ArrayType", elementType |-> elem]
Tup(elems) == [kind |-> "TupleType", elements |-> elems]
Un(types) == [kind |-> "UnionType", types |-> types]
Obj(props) == [kind |-> "TypeLiteral", members |-> props]
FnNode == [kind |-> "FunctionType"]

Prop(name, q, node) == [name |-> name, hasQuestionToken |-> q, typeNode |-> node]

InterfaceDecl(tps, ext, props) ==
    [kind |-> "interface", typeParameters |-> tps, extends |-> ext, properties |-> props,
     typeNode |-> NoNode, members |-> <<>>]
TypeAliasDecl(tps, node) ==
    [kind |-> "type_alias", typeParameters |-> tps, extends |-> <<>>, properties |-> <<>>,
     typeNode |-> node, members |-> <<>>]
\* an enum member: its name and its value (sort and characters)
EnumMember(name, sort, value) == [name |-> name, sort |-> sort, value |-> value]
EnumDecl(members) ==
    [kind |-> "enum", typeParameters |-> <<>>, extends |-> <<>>, properties |-> <<>>,
     typeNode |-> NoNode, members |-> members]

(***************************************************************************)
(* The names of the surface program.                                       *)
(***************************************************************************)
\* names that have an interface, type-alias or enum declaration
DeclNames == {"N", "M", "U", "E"}
\* a class: its symbol has a declaration, yet it is no interface, alias or enum
ClassNames == {"K"}
\* a name nothing declares
Missing == "Z"
\* the declarations of lib.*.d.ts the resolver knows by name
LibNames == {"Array", "ReadonlyArray", "Record", "Map", "Set", "Date", "Promise"}
\* a nested alias of an external package (PackageJson.WorkspaceConfig): its symbol is
\* declared under node_modules, and no module declares it at top level
ExternalNested == {"W"}
\* the names options.typeNames is drawn from
RootNames == {"N", "U"}

VARIABLES
    decls,            \* the surface program: declared name -> declaration
    options,          \* ConversionOptions: strict, typeNames
    collectedTypes,   \* Map<string, CollectedType>, in insertion order
    processingTypes,  \* Set<string>: names on the resolution stack
    typeParameters,   \* Set<string>: type parameters in scope
    warnings,         \* string[]
    pc,               \* where the run is: "running", "returned" (from resolve()), "threw" or "converted"
    idx,              \* position of the loop of resolve() in its list of roots
    error,            \* the exception resolve() threw, if any
    setLog,           \* history: the keys passed to collectedTypes.set, in order
    outputPath,       \* options.outputPath, drawn where convert() reads it
    fileSystem,       \* the directories that exist and the files written
    result,           \* the ConversionResult convert() returned, if it did
    dispatchLog,      \* history: the names resolveTypeByName dispatched to resolveInterface,
                      \* resolveTypeAlias or resolveEnum, in order
    framesKept,       \* history: every call of resolveTypeByName and resolveInterface that
                      \* ended left processingTypes / typeParameters as they were at the call
    rawGraph,         \* run-in-order: the graph read, package -> its dependencies
    dependencies,     \* run-in-order: Map<string, Set<string>>, the dependencies left
    running,          \* run-in-order: Set<string>
    completed,        \* run-in-order: Set<string>
    promise,          \* run-in-order: the promise of runGraph(): "none", "pending",
                      \* "resolved" or "rejected"
    processExit,      \* run-in-order: the code of process.exit, -1 while it was not called
    started,          \* history: how many times the command of a package was spawned
    exitLog           \* history: the exit codes of the commands of a package, in order

resolverVars == <<decls, options, collectedTypes, processingTypes, typeParameters, warnings,
                  pc, idx, error, setLog, outputPath, fileSystem, result, framesKept,
                  dispatchLog>>
schedulerVars == <<rawGraph, dependencies, running, completed, promise, processExit,
                   started, exitLog>>
vars == <<resolverVars, schedulerVars>>

Range(s) == {s[i] : i \in DOMAIN s}

(***************************************************************************)
(* Host queries: what the type checker answers for a type node.            *)
(* A Type handle is a record of the answers the resolver asks for.         *)
(***************************************************************************)
Ty(flags) ==
    [flags |-> flags, aliasSymbol |-> "", aliasTypeArguments |-> <<>>, symbol |-> "",
     typeArguments |-> <<>>, tuple |-> FALSE, types |-> <<>>, properties |-> <<>>,
     literal |-> <<>>, stringIndex |-> <<>>, numberIndex |-> <<>>]

RECURSIVE TypeOf(_)
RECURSIVE TypesOf(_)
RECURSIVE Flatten(_)

\* the types of a list of nodes
TypesOf(nodes) ==
    IF nodes = <<>> THEN <<>> ELSE <<TypeOf(Head(nodes))>> \o TypesOf(Tail(nodes))

\* the checker flattens the members of a union and drops duplicates
Flatten(types) ==
    IF types = <<>> THEN <<>>
    ELSE LET h == Head(types)
             hs == IF h.flags = "union" THEN h.types ELSE <<h>>
             rest == Flatten(Tail(types))
         IN hs \o SelectSeq(rest, LAMBDA t : t \notin Range(hs))

TypeOf(node) ==
    CASE node.kind = "Keyword" -> Ty(node.text)
      [] node.kind = "LiteralType" ->
            IF node.lit = "null" THEN Ty("null")
            ELSE [Ty(node.lit \o "Literal") EXCEPT !.literal = node.value]
      [] node.kind = "ArrayType" ->
            [Ty("object") EXCEPT !.symbol = "Array",
                                 !.typeArguments = <<TypeOf(node.elementType)>>]
      [] node.kind = "TupleType" ->
            [Ty("object") EXCEPT !.tuple = TRUE, !.types = TypesOf(node.elements)]
      [] node.kind = "UnionType" ->
            [Ty("union") EXCEPT !.types = Flatten(TypesOf(node.types))]
      [] node.kind = "TypeLiteral" ->
            [Ty("object") EXCEPT !.symbol = "__type", !.properties = node.members]
      [] node.kind = "FunctionType" ->
            [Ty("object") EXCEPT !.symbol = "__type"]
      [] node.kind = "TypeReference" ->
            LET name == node.typeName
                args == TypesOf(node.typeArguments)
            IN  CASE node.param -> [Ty("typeParameter") EXCEPT !.symbol = name]
                  [] ~node.param /\ name = "Record" ->
                        \* Record<K, V> is a mapped type: an index signature over K
                        [Ty("object") EXCEPT !.aliasSymbol = "Record",
                                             !.aliasTypeArguments = args,
                                             !.symbol = "__type",
                                             !.stringIndex = IF args[1].flags = "string" THEN <<args[2]>> ELSE <<>>,
                                             !.numberIndex = IF args[1].flags = "number" THEN <<args[2]>> ELSE <<>>]
                  [] ~node.param /\ name \in LibNames \ {"Record"} ->
                        [Ty("object") EXCEPT !.symbol = name, !.typeArguments = args]
                  [] ~node.param /\ name \in ClassNames ->
                        [Ty("object") EXCEPT !.symbol = name]
                  [] ~node.param /\ name \in ExternalNested ->
                        [Ty("object") EXCEPT !.aliasSymbol = name, !.symbol = "__type",
                                             !.properties = <<Prop("packages", TRUE, Arr(Kw("string")))>>]
                  [] ~node.param /\ name \in DOMAIN decls ->
                        LET d == decls[name]
                        IN  CASE d.kind = "interface" ->
                                    [Ty("object") EXCEPT !.symbol = name,
                                                         !.typeArguments = args,
                                                         !.properties = d.properties]
                              [] d.kind = "enum" ->
                                    \* the declared type of an enum is the union of its
                                    \* member literals, aliased by the enum's symbol
                                    [Ty("union") EXCEPT !.aliasSymbol = name, !.symbol = name,
                                         !.types = [i \in DOMAIN d.members |->
                                             [Ty(d.members[i].sort \o "Literal") EXCEPT !.literal = d.members[i].value]]]
                              [] d.kind = "type_alias" ->
                                    \* a fresh union, object or function type carries the
                                    \* alias symbol; a keyword, array, tuple or reference
                                    \* is the aliased type itself
                                    IF d.typeNode.kind \in {"UnionType", "TypeLiteral", "FunctionType"}
                                    THEN [TypeOf(d.typeNode) EXCEPT !.aliasSymbol = name,
                                                                    !.aliasTypeArguments = args]
                                    ELSE TypeOf(d.typeNode)
                  [] OTHER -> Ty("any")

\* prop.getType(), prop.getTypeAtLocation(...): the type of a property's declared node;
\* the type of a property declared with a question token includes undefined (the
\* checker runs with strictNullChecks, without which no union would keep its null)
PropType(prop) ==
    LET t == TypeOf(prop.typeNode)
        types == Flatten(<<t, Ty("undefined")>>)
    IN  IF ~prop.hasQuestionToken \/ t.flags \in {"any", "unknown"} THEN t
        ELSE IF Len(types) = 1 THEN types[1]
        ELSE [Ty("union") EXCEPT !.types = types]
\* declaration.getType() of a type alias declaration
DeclaredType(name) == TypeOf(Ref(name))
\* type.getText(), to the extent the messages of the resolver use it
TypeText(type) ==
    IF type.aliasSymbol # "" THEN type.aliasSymbol
    ELSE IF type.symbol \notin {"", "__type"} THEN type.symbol
    ELSE type.flags
\* type.getSymbol() || type.getAliasSymbol(), by name ("" when the type has neither)
SymbolName(type) == IF type.symbol # "" THEN type.symbol ELSE type.aliasSymbol
\* the file of a symbol's first declaration
DeclFile(name) ==
    IF name \in LibNames \cup {"Object", "Function", "String", "Number", "Boolean"}
    THEN "node_modules/typescript/lib"
    ELSE IF name \in ExternalNested THEN "node_modules/pkg"
    ELSE "user"

IsArray(type) == type.symbol = "Array" /\ Len(type.typeArguments) = 1
IsObject(type) == type.flags = "object"
IsNull(type) == type.flags = "null"
IsUndefined(type) == type.flags = "undefined"
IsLiteral(type) == type.flags \in {"stringLiteral", "numberLiteral", "booleanLiteral"}

(***************************************************************************)
(* The intermediate representation (types.ts).                             *)
(***************************************************************************)
Primitive(t) == [kind |-> "primitive", type |-> t]
ArrayOf(e) == [kind |-> "array", elementType |-> e]
TupleOf(es) == [kind |-> "tuple", elements |-> es]
RecordOf(k, v) == [kind |-> "record", keyType |-> k, valueType |-> v]
MapOf(k, v) == [kind |-> "map", keyType |-> k, valueType |-> v]
SetOf(e) == [kind |-> "set", elementType |-> e]
Option(t) == [kind |-> "option", innerType |-> t]
Box(t) == [kind |-> "box", innerType |-> t]
JsonValue == [kind |-> "json_value"]
Struct(name, fields) == [kind |-> "struct", name |-> name, fields |-> fields]
StructRef(name) == Struct(name, <<>>)
Field(name, type, optional) == [name |-> name, type |-> type, optional |-> optional]

(***************************************************************************)
(* The resolver's fields, threaded through the calls, and exceptions.      *)
(***************************************************************************)
NoError == [name |-> "none", typeName |-> "", reason |-> ""]
Ok(st) == st.error = NoError
\* throw new TypeConversionError(typeName, reason, ...)
Throw(st, typeName, reason) ==
    [st EXCEPT !.error = [name |-> "TypeConversionError", typeName |-> typeName, reason |-> reason]]
\* the depth of calls of resolveTypeByName at which the host's call stack is exhausted
MaxStack == 4
\* RangeError: Maximum call stack size exceeded
StackOverflow(st) ==
    [st EXCEPT !.error = [name |-> "RangeError", typeName |-> "",
                          reason |-> "Maximum call stack size exceeded"]]
\* history: whether the call that went from before to after left processingTypes /
\* typeParameters as it found them
ProcessingFrame(before, after) ==
    [after EXCEPT !.framesKept = @ /\ after.processingTypes = before.processingTypes]
TypeParametersFrame(before, after) ==
    [after EXCEPT !.framesKept = @ /\ after.typeParameters = before.typeParameters]
\* a call's outcome: the fields after it and the value it returned
Ret(st, r) == [st |-> st, r |-> r]

HasCollected(st, name) == \E i \in DOMAIN st.collectedTypes : st.collectedTypes[i].name = name

\* this.collectedTypes.set(name, {name, type, sourceFile})
CollectedSet(st, name, type) ==
    LET c == st.collectedTypes
        e == [name |-> name, type |-> type]
    IN  [st EXCEPT !.collectedTypes =
                        IF \E i \in DOMAIN c : c[i].name = name
                        THEN [i \in DOMAIN c |-> IF c[i].name = name THEN e ELSE c[i]]
                        ELSE Append(c, e),
                   !.setLog = Append(@, name)]

\* a warning: the reason's text, the name the reason quotes, and the type's text
Warning(reason, subject, typeText) == [reason |-> reason, subject |-> subject, type |-> typeText]

handleValueFallback(st, reason, subject, typeText) ==
    IF options.strict
    THEN Ret(Throw(st, IF typeText = "" THEN "unknown" ELSE typeText, reason), JsonValue)
    ELSE Ret([st EXCEPT !.warnings = Append(@, Warning(reason, subject, typeText))], JsonValue)

\* findTypeDeclaration: the interface, alias or enum of that name, in the file, its
\* imports or any file of the project
findTypeDeclaration(typeName) == typeName \in DOMAIN decls

isBuiltInType(type) ==
    IF type.aliasSymbol # "" THEN FALSE
    ELSE IF type.symbol = "" THEN FALSE
    ELSE type.symbol \in {"Array", "ReadonlyArray", "Record", "Map", "Set", "Date", "Promise",
                          "Object", "Function", "String", "Number", "Boolean"}

\* symbolName.startsWith("__") || "Object" || "Function"
isInternalType(symbolName) == symbolName \in {"__type", "__object", "Object", "Function"}

isBuiltInAlias(aliasName) ==
    aliasName \in {"Array", "ReadonlyArray", "Record", "Map", "Set", "Date", "Promise", "Partial",
                   "Required", "Readonly", "Pick", "Omit", "Exclude", "Extract", "NonNullable",
                   "ReturnType", "InstanceType", "Parameters"}

isFromNodeModules(filePath) == filePath = "node_modules/pkg"
isFromTypeScriptLib(filePath) == filePath = "node_modules/typescript/lib"

isLiteralUnion(types) ==
    \A i \in DOMAIN types : IsLiteral(types[i]) \/ IsNull(types[i]) \/ IsUndefined(types[i])

(***************************************************************************)
(* Literal values and variant names.  A literal's text is a sequence of    *)
(* characters, so that toVariantName can be computed on it.                *)
(***************************************************************************)
Lowers == <<"a", "b", "c", "d", "e", "f", "g", "h", "i", "j", "k", "l", "m",
            "n", "o", "p", "q", "r", "s", "t", "u", "v", "w", "x", "y", "z">>
Uppers == <<"A", "B", "C", "D", "E", "F", "G", "H", "I", "J", "K", "L", "M",
            "N", "O", "P", "Q", "R", "S", "T", "U", "V", "W", "X", "Y", "Z">>
toUpperCase(c) ==
    IF \E i \in DOMAIN Lowers : Lowers[i] = c
    THEN Uppers[CHOOSE i \in DOMAIN Lowers : Lowers[i] = c] ELSE c
toLowerCase(c) ==
    IF \E i \in DOMAIN Uppers : Uppers[i] = c
    THEN Lowers[CHOOSE i \in DOMAIN Uppers : Uppers[i] = c] ELSE c
\* a character the pattern [-_\s] matches
IsSeparator(c) == c \in {"-", "_", " "}

RECURSIVE Split(_, _, _, _)
\* value.split(/[-_\s]+/): the parts between the runs of separators
Split(chars, parts, current, inRun) ==
    IF chars = <<>> THEN Append(parts, current)
    ELSE IF IsSeparator(Head(chars))
         THEN IF inRun THEN Split(Tail(chars), parts, current, TRUE)
              ELSE Split(Tail(chars), Append(parts, current), <<>>, TRUE)
         ELSE Split(Tail(chars), parts, Append(current, Head(chars)), FALSE)

\* part.charAt(0).toUpperCase() + part.slice(1).toLowerCase()
Capitalize(part) ==
    IF part = <<>> THEN <<>>
    ELSE <<toUpperCase(part[1])>> \o [i \in 1..(Len(part) - 1) |-> toLowerCase(part[i + 1])]

RECURSIVE Join(_)
Join(parts) == IF parts = <<>> THEN <<>> ELSE Head(parts) \o Join(Tail(parts))

toVariantName(value) ==
    LET parts == Split(value, <<>>, <<>>, FALSE)
    IN  Join([i \in DOMAIN parts |-> Capitalize(parts[i])])

\* a variant's name: a fixed word followed by characters
VariantName(base, chars) == [base |-> base, chars |-> chars]
\* type.getLiteralValue(): a string, a number, or undefined (a boolean literal has none)
LiteralValue(type) ==
    IF type.flags = "stringLiteral" THEN [sort |-> "string", chars |-> type.literal]
    ELSE IF type.flags = "numberLiteral" THEN [sort |-> "number", chars |-> type.literal]
    ELSE [sort |-> "undefined", chars |-> <<>>]
\* the truthiness of a literal value
Truthy(v) ==
    \/ v.sort = "string" /\ v.chars # <<>>
    \/ v.sort = "number" /\ v.chars # <<"0">>

\* t.getProperty(propName), as a sequence of zero or one property
getProperty(type, propName) == SelectSeq(type.properties, LAMBDA p : p.name = propName)

\* propName exists in all object types and has a literal type in each
IsDiscriminant(objectTypes, propName) ==
    \A i \in DOMAIN objectTypes :
        LET prop == getProperty(objectTypes[i], propName)
        IN  prop # <<>> /\ IsLiteral(PropType(prop[1]))

ObjectTypes(types) == SelectSeq(types, LAMBDA t : IsObject(t) /\ ~IsNull(t) /\ ~IsUndefined(t))

isDiscriminatedUnion(types) ==
    IF Len(types) < 2 THEN FALSE
    ELSE LET objectTypes == ObjectTypes(types)
         IN  IF Len(objectTypes) < 2 THEN FALSE
             ELSE \E i \in DOMAIN objectTypes[1].properties :
                     IsDiscriminant(objectTypes, objectTypes[1].properties[i].name)

\* the first property of the first object type that is a discriminant
\* (a sequence of zero or one name)
DiscriminantProp(objectTypes) ==
    LET firstProps == objectTypes[1].properties
        hits == SelectSeq(firstProps, LAMBDA p : IsDiscriminant(objectTypes, p.name))
    IN  IF hits = <<>> THEN <<>> ELSE <<hits[1].name>>

resolveLiteralUnionAsEnum(name, types) ==
    LET valued == SelectSeq(types, LAMBDA t : ~IsNull(t) /\ ~IsUndefined(t)
                                              /\ LiteralValue(t).sort \in {"string", "number"})
        variants == [i \in DOMAIN valued |->
                        LET value == LiteralValue(valued[i])
                        IN  IF value.sort = "string"
                            THEN [name |-> VariantName("", toVariantName(value.chars)),
                                  sort |-> "string", value |-> value.chars]
                            ELSE [name |-> VariantName("Value", value.chars),
                                  sort |-> "number", value |-> value.chars]]
        isStringEnum == \E i \in DOMAIN types : LiteralValue(types[i]).sort = "string"
    IN  [kind |-> "enum", name |-> name, variants |-> variants, isStringEnum |-> isStringEnum]

(***************************************************************************)
(* The resolver's methods.  Each takes the resolver's fields st and        *)
(* returns them after the call (with the value returned, for a method      *)
(* that returns one).  A call that threw leaves st.error set; every caller *)
(* tests it after the call and passes it up, running its finally block.    *)
(***************************************************************************)
\* this.<method>(<args>): a call of a method of the resolver, the methods being
\* mutually recursive
RECURSIVE Call(_, _, _)

\* the wrap without its test of the resolved type's kind
WrapOptional_Always(isOptional, resolvedType) ==
    IF isOptional THEN Option(resolvedType) ELSE resolvedType

\* if (isOptional && resolvedType.kind !== "option") wrap in option
WrapOptional(isOptional, resolvedType) ==
    IF isOptional /\ resolvedType.kind # "option" THEN Option(resolvedType) ELSE resolvedType

\* a struct reference to a type being processed is wrapped in box
BoxIfProcessing(st, resolvedType) ==
    IF resolvedType.kind = "struct" /\ resolvedType.name # ""
       /\ resolvedType.name \in st.processingTypes
    THEN Box(resolvedType)
    ELSE resolvedType

resolveEnum(st, name) ==
    LET members == decls[name].members
        variants == [i \in DOMAIN members |->
                        [name |-> VariantName(members[i].name, <<>>), sort |-> members[i].sort,
                         value |-> members[i].value]]
        isStringEnum == \E i \in DOMAIN members : members[i].sort = "string"
    IN  CollectedSet(st, name, [kind |-> "enum", name |-> name, variants |-> variants,
                                isStringEnum |-> isStringEnum])

\* resolveTypeByName without its collectedTypes.has check
resolveTypeByName_NoCollectedCheck(st, typeName) ==
    IF typeName \in st.processingTypes THEN st
    ELSE IF ~findTypeDeclaration(typeName)
    THEN Throw(st, typeName, "Type declaration not found")
    ELSE LET s1 == [st EXCEPT !.processingTypes = @ \cup {typeName}]
             kind == decls[typeName].kind
             s2 == CASE kind = "interface" -> Call("resolveInterface", s1, <<typeName>>)
                     [] kind = "type_alias" -> Call("resolveTypeAlias", s1, <<typeName>>)
                     [] kind = "enum" -> resolveEnum(s1, typeName)
         IN  [s2 EXCEPT !.processingTypes = @ \ {typeName}]

\* resolveTypeByName marking the name as processing before it looks the declaration up
resolveTypeByName_MarkBeforeLookup(st, typeName) ==
    IF HasCollected(st, typeName) THEN st
    ELSE IF typeName \in st.processingTypes THEN st
    ELSE LET s1 == [st EXCEPT !.processingTypes = @ \cup {typeName}]
         IN  IF ~findTypeDeclaration(typeName)
             THEN Throw(s1, typeName, "Type declaration not found")
             ELSE LET kind == decls[typeName].kind
                      s2 == CASE kind = "interface" -> Call("resolveInterface", s1, <<typeName>>)
                              [] kind = "type_alias" -> Call("resolveTypeAlias", s1, <<typeName>>)
                              [] kind = "enum" -> resolveEnum(s1, typeName)
                  IN  [s2 EXCEPT !.processingTypes = @ \ {typeName}]

\* resolveTypeByName without its processingTypes.has check: the resolution of a name that
\* is entered again while it is in progress meets the same uncollected name again, and
\* nests until the call stack is exhausted
resolveTypeByName_NoProcessingCheck(st, typeName) ==
    IF st.depth >= MaxStack THEN StackOverflow(st)
    ELSE IF HasCollected(st, typeName) THEN st
    ELSE IF typeName \in st.processingTypes THEN StackOverflow(st)
    ELSE IF ~findTypeDeclaration(typeName)
    THEN Throw(st, typeName, "Type declaration not found")
    ELSE LET s1 == [st EXCEPT !.processingTypes = @ \cup {typeName}, !.depth = @ + 1]
             kind == decls[typeName].kind
             s2 == CASE kind = "interface" -> Call("resolveInterface", s1, <<typeName>>)
                     [] kind = "type_alias" -> Call("resolveTypeAlias", s1, <<typeName>>)
                     [] kind = "enum" -> resolveEnum(s1, typeName)
         IN  ProcessingFrame(st, [s2 EXCEPT !.processingTypes = @ \ {typeName}, !.depth = @ - 1])

\* resolveTypeByName without the finally that unmarks the name
resolveTypeByName_NoUnmark(st, typeName) ==
    IF st.depth >= MaxStack THEN StackOverflow(st)
    ELSE IF HasCollected(st, typeName) THEN st
    ELSE IF typeName \in st.processingTypes THEN st
    ELSE IF ~findTypeDeclaration(typeName)
    THEN Throw(st, typeName, "Type declaration not found")
    ELSE LET s1 == [st EXCEPT !.processingTypes = @ \cup {typeName}, !.depth = @ + 1]
             kind == decls[typeName].kind
             s2 == CASE kind = "interface" -> Call("resolveInterface", s1, <<typeName>>)
                     [] kind = "type_alias" -> Call("resolveTypeAlias", s1, <<typeName>>)
                     [] kind = "enum" -> resolveEnum(s1, typeName)
         IN  ProcessingFrame(st, [s2 EXCEPT !.depth = @ - 1])

resolveTypeByName(st, typeName) ==
    IF st.depth >= MaxStack THEN StackOverflow(st)
    ELSE IF HasCollected(st, typeName) THEN st
    ELSE IF typeName \in st.processingTypes THEN st
    ELSE IF ~findTypeDeclaration(typeName)
    THEN Throw(st, typeName, "Type declaration not found")
    ELSE LET s1 == [st EXCEPT !.processingTypes = @ \cup {typeName}, !.depth = @ + 1,
                              !.dispatchLog = Append(@, typeName)]
             kind == decls[typeName].kind
             s2 == CASE kind = "interface" -> Call("resolveInterface", s1, <<typeName>>)
                     [] kind = "type_alias" -> Call("resolveTypeAlias", s1, <<typeName>>)
                     [] kind = "enum" -> resolveEnum(s1, typeName)
         IN  \* finally
             ProcessingFrame(st, [s2 EXCEPT !.processingTypes = @ \ {typeName}, !.depth = @ - 1])

\* for (const prop of ...) fields.push(this.resolveProperty(prop))
resolveProperties(st, props, fields) ==
    IF props = <<>> THEN Ret(st, fields)
    ELSE LET f == Call("resolveProperty", st, <<Head(props)>>)
         IN  IF ~Ok(f.st) THEN Ret(f.st, fields)
             ELSE Call("resolveProperties", f.st, <<Tail(props), Append(fields, f.r)>>)

extractFieldsFromType(st, type) == Call("resolveProperties", st, <<type.properties, <<>>>>)

\* for (const extendedType of declaration.getExtends()) fields.push(...baseFields)
resolveExtends(st, extends, fields) ==
    IF extends = <<>> THEN Ret(st, fields)
    ELSE LET b == Call("extractFieldsFromType", st, <<TypeOf(Ref(Head(extends)))>>)
         IN  IF ~Ok(b.st) THEN Ret(b.st, fields)
             ELSE Call("resolveExtends", b.st, <<Tail(extends), fields \o b.r>>)

\* resolveInterface without the finally that restores the type parameters
resolveInterface_NoRestore(st, name) ==
    LET declaration == decls[name]
        s1 == [st EXCEPT !.typeParameters = @ \cup Range(declaration.typeParameters)]
        base == Call("resolveExtends", s1, <<declaration.extends, <<>>>>)
        own == IF Ok(base.st) THEN Call("resolveProperties", base.st, <<declaration.properties, base.r>>)
               ELSE base
        s2 == IF Ok(own.st) THEN CollectedSet(own.st, name, Struct(name, own.r)) ELSE own.st
    IN  TypeParametersFrame(st, s2)

resolveInterface(st, name) ==
    LET declaration == decls[name]
        previousTypeParams == st.typeParameters
        s1 == [st EXCEPT !.typeParameters = @ \cup Range(declaration.typeParameters)]
        base == Call("resolveExtends", s1, <<declaration.extends, <<>>>>)
        own == IF Ok(base.st) THEN Call("resolveProperties", base.st, <<declaration.properties, base.r>>)
               ELSE base
        s2 == IF Ok(own.st) THEN CollectedSet(own.st, name, Struct(name, own.r)) ELSE own.st
    IN  \* finally
        TypeParametersFrame(st, [s2 EXCEPT !.typeParameters = previousTypeParams])

resolveProperty(st, prop) ==
    LET r == Call("resolveType", st, <<PropType(prop)>>)
    IN  IF ~Ok(r.st) THEN r
        ELSE Ret(r.st, Field(prop.name,
                             WrapOptional(prop.hasQuestionToken, BoxIfProcessing(r.st, r.r)),
                             prop.hasQuestionToken))

\* the property loop of an object type alias
resolveAliasProperties(st, props, fields) ==
    IF props = <<>> THEN Ret(st, fields)
    ELSE LET prop == Head(props)
             r == Call("resolveTypeWithNode", st, <<PropType(prop), prop.typeNode>>)
         IN  IF ~Ok(r.st) THEN Ret(r.st, fields)
             ELSE Call("resolveAliasProperties", r.st, <<Tail(props),
                      Append(fields, Field(prop.name, WrapOptional(prop.hasQuestionToken, r.r),
                                           prop.hasQuestionToken))>>)

\* the outcome of resolveUnionType for a union with an unresolvable variant
NullUnion == [kind |-> "null"]

resolveTypeAlias(st, name) ==
    LET type == DeclaredType(name)
    IN  IF type.tuple
        THEN LET e == Call("resolveEach", st, <<type.types, <<>>>>)
             IN  IF ~Ok(e.st) THEN e.st
                 ELSE CollectedSet(e.st, name, [kind |-> "type_alias", name |-> name,
                                                aliasedType |-> TupleOf(e.r)])
        ELSE IF IsObject(type) /\ ~IsArray(type) /\ ~isBuiltInType(type)
                /\ Len(type.properties) > 0
        THEN LET f == Call("resolveAliasProperties", st, <<type.properties, <<>>>>)
             IN  IF ~Ok(f.st) THEN f.st
                 ELSE CollectedSet(f.st, name, Struct(name, f.r))
        ELSE IF type.flags = "union"
        THEN IF isDiscriminatedUnion(type.types)
             THEN LET u == Call("resolveDiscriminatedUnion", st, <<name, type.types>>)
                  IN  IF ~Ok(u.st) THEN u.st ELSE CollectedSet(u.st, name, u.r)
             ELSE IF isLiteralUnion(type.types)
             THEN CollectedSet(st, name, resolveLiteralUnionAsEnum(name, type.types))
             ELSE LET u == Call("resolveUnionType", st, <<name, type.types>>)
                  IN  IF ~Ok(u.st) THEN u.st
                      ELSE IF u.r = NullUnion
                      THEN [u.st EXCEPT !.warnings =
                                Append(@, Warning("Union type has unresolvable variants and will be used as serde_json::Value in other types", name, ""))]
                      ELSE CollectedSet(u.st, name, u.r)
        ELSE LET r == Call("resolveType", st, <<type>>)
             IN  IF Ok(r.st) /\ r.r.kind \in {"struct", "enum", "union"}
                 THEN CollectedSet(r.st, name, r.r)
                 ELSE r.st

resolveTypeWithNode(st, type, typeNode) ==
    IF typeNode.kind = "UnionType"
    THEN LET typeNodes == typeNode.types
             IsNullNode(n) == n.kind = "LiteralType" /\ n.lit = "null"
             nullNodes == SelectSeq(typeNodes, IsNullNode)
             nonNullNodes == SelectSeq(typeNodes, LAMBDA n : ~IsNullNode(n))
         IN  IF Len(nullNodes) > 0 /\ Len(nonNullNodes) = 1
             THEN LET nonNullNode == nonNullNodes[1]
                  IN  IF nonNullNode.kind = "TypeReference"
                         /\ findTypeDeclaration(nonNullNode.typeName)
                      THEN Ret(Call("resolveTypeByName", st, <<nonNullNode.typeName>>),
                               Option(StructRef(nonNullNode.typeName)))
                      ELSE IF nonNullNode.kind = "TypeReference"
                              /\ nonNullNode.typeName = "Array"
                              /\ Len(nonNullNode.typeArguments) > 0
                      THEN LET e == Call("resolveTypeFromNode", st, <<nonNullNode.typeArguments[1]>>)
                           IN  Ret(e.st, Option(ArrayOf(e.r)))
                      ELSE IF nonNullNode.kind = "ArrayType"
                      THEN LET e == Call("resolveTypeFromNode", st, <<nonNullNode.elementType>>)
                           IN  Ret(e.st, Option(ArrayOf(e.r)))
                      ELSE Call("resolveType", st, <<type>>)
             ELSE Call("resolveType", st, <<type>>)
    ELSE Call("resolveType", st, <<type>>)

resolveTypeFromNode(st, typeNode) ==
    IF typeNode.kind = "TypeReference"
    THEN IF typeNode.typeName = "Array" /\ Len(typeNode.typeArguments) > 0
         THEN LET e == Call("resolveTypeFromNode", st, <<typeNode.typeArguments[1]>>)
              IN  Ret(e.st, ArrayOf(e.r))
         ELSE IF findTypeDeclaration(typeNode.typeName)
         THEN Ret(Call("resolveTypeByName", st, <<typeNode.typeName>>), StructRef(typeNode.typeName))
         ELSE Call("resolveImportedType", st, <<typeNode.typeName>>)
    ELSE IF typeNode.kind = "Keyword" /\ typeNode.text \in {"string", "number", "boolean"}
    THEN Ret(st, Primitive(typeNode.text))
    ELSE Call("resolveType", st, <<TypeOf(typeNode)>>)

\* the names a named import of the file brings in from a module whose file resolves
NamedImports == {"M"}

resolveImportedType(st, typeName) ==
    IF typeName \in NamedImports /\ findTypeDeclaration(typeName)
    THEN LET s1 == Call("resolveTypeByName", st, <<typeName>>)
         IN  IF ~Ok(s1) THEN Ret(s1, JsonValue)
             ELSE IF ~HasCollected(s1, typeName)
             THEN handleValueFallback(s1, "Type could not be fully resolved", typeName, "")
             ELSE Ret(s1, StructRef(typeName))
    ELSE handleValueFallback(st, "Type could not be resolved", "", "")

\* a block of resolveType: the fields after it, and the value it returned if it did
Done(st, r) == [st |-> st, r |-> r, done |-> TRUE]
NotDone(st) == [st |-> st, r |-> JsonValue, done |-> FALSE]
\* a call made by a block, whose value the block returns
Returned(call) == Done(call.st, call.r)

\* types.map((t) => this.resolveType(t, sourceFile))
resolveEach(st, types, resolved) ==
    IF types = <<>> THEN Ret(st, resolved)
    ELSE LET r == Call("resolveType", st, <<Head(types)>>)
         IN  IF ~Ok(r.st) THEN Ret(r.st, resolved)
             ELSE Call("resolveEach", r.st, <<Tail(types), Append(resolved, r.r)>>)

\* the property loop of an inline object, of a nested external type and of a variant
resolveObjectProperties(st, props, fields) ==
    IF props = <<>> THEN Ret(st, fields)
    ELSE LET prop == Head(props)
             r == Call("resolveType", st, <<PropType(prop)>>)
         IN  IF ~Ok(r.st) THEN Ret(r.st, fields)
             ELSE Call("resolveObjectProperties", r.st, <<Tail(props),
                      Append(fields, Field(prop.name, WrapOptional(prop.hasQuestionToken, r.r),
                                           prop.hasQuestionToken))>>)

\* resolveType, the alias check: a type written as a reference to a named alias
resolveTypeAliasSymbol(st, type) ==
    LET aliasName == type.aliasSymbol
    IN  IF aliasName # "" /\ ~isBuiltInAlias(aliasName)
        THEN IF aliasName \in st.typeParameters
             THEN Returned(handleValueFallback(st,
                      "Type parameter cannot be resolved to concrete type", aliasName, TypeText(type)))
             ELSE LET s1 == Call("resolveTypeByName", st, <<aliasName>>)
                  IN  IF ~Ok(s1) THEN Done(s1, JsonValue)
                      ELSE IF HasCollected(s1, aliasName) \/ aliasName \in s1.processingTypes
                      THEN Done(s1, StructRef(aliasName))
                      ELSE NotDone(s1)
        ELSE NotDone(st)

\* resolveTypeStructural with any and unknown sent through handleValueFallback
resolveTypeStructural_AnyFallback(st, type) ==
    IF IsNull(type) THEN Done(st, Primitive("null"))
    ELSE IF IsUndefined(type) THEN Done(st, Primitive("undefined"))
    ELSE IF type.flags \in {"string", "stringLiteral"} THEN Done(st, Primitive("string"))
    ELSE IF type.flags \in {"number", "numberLiteral"} THEN Done(st, Primitive("number"))
    ELSE IF type.flags \in {"boolean", "booleanLiteral"} THEN Done(st, Primitive("boolean"))
    ELSE IF type.flags \in {"any", "unknown"}
    THEN Returned(handleValueFallback(st, "Type could not be resolved", "", TypeText(type)))
    ELSE IF IsArray(type)
    THEN LET e == Call("resolveType", st, <<type.typeArguments[1]>>)
         IN  Done(e.st, ArrayOf(e.r))
    ELSE IF type.tuple
    THEN LET e == Call("resolveEach", st, <<type.types, <<>>>>)
         IN  Done(e.st, TupleOf(e.r))
    ELSE IF type.flags = "union" THEN Returned(Call("resolveInlineUnionType", st, <<type>>))
    ELSE IF type.stringIndex # <<>> /\ Len(type.properties) = 0
    THEN LET v == Call("resolveType", st, <<type.stringIndex[1]>>)
         IN  Done(v.st, RecordOf(Primitive("string"), v.r))
    ELSE IF type.numberIndex # <<>> /\ Len(type.properties) = 0
    THEN LET v == Call("resolveType", st, <<type.numberIndex[1]>>)
         IN  Done(v.st, RecordOf(Primitive("number"), v.r))
    ELSE NotDone(st)

\* resolveType, from the null check to the index signatures
resolveTypeStructural(st, type) ==
    IF IsNull(type) THEN Done(st, Primitive("null"))
    ELSE IF IsUndefined(type) THEN Done(st, Primitive("undefined"))
    ELSE IF type.flags \in {"string", "stringLiteral"} THEN Done(st, Primitive("string"))
    ELSE IF type.flags \in {"number", "numberLiteral"} THEN Done(st, Primitive("number"))
    ELSE IF type.flags \in {"boolean", "booleanLiteral"} THEN Done(st, Primitive("boolean"))
    ELSE IF type.flags \in {"any", "unknown"} THEN Done(st, JsonValue)
    ELSE IF IsArray(type)
    THEN LET e == Call("resolveType", st, <<type.typeArguments[1]>>)
         IN  Done(e.st, ArrayOf(e.r))
    ELSE IF type.tuple
    THEN LET e == Call("resolveEach", st, <<type.types, <<>>>>)
         IN  Done(e.st, TupleOf(e.r))
    ELSE IF type.flags = "union" THEN Returned(Call("resolveInlineUnionType", st, <<type>>))
    ELSE IF type.stringIndex # <<>> /\ Len(type.properties) = 0
    THEN LET v == Call("resolveType", st, <<type.stringIndex[1]>>)
         IN  Done(v.st, RecordOf(Primitive("string"), v.r))
    ELSE IF type.numberIndex # <<>> /\ Len(type.properties) = 0
    THEN LET v == Call("resolveType", st, <<type.numberIndex[1]>>)
         IN  Done(v.st, RecordOf(Primitive("number"), v.r))
    ELSE NotDone(st)

\* resolveType, the block for object types whose alias is declared under node_modules
resolveTypeNodeModules(st, type) ==
    LET aliasName == type.aliasSymbol
    IN  IF IsObject(type) /\ aliasName # "" /\ Len(type.properties) > 0
           /\ isFromNodeModules(DeclFile(aliasName))
        THEN IF findTypeDeclaration(aliasName)
             THEN Done(Call("resolveTypeByName", st, <<aliasName>>), StructRef(aliasName))
             ELSE IF ~HasCollected(st, aliasName)
             THEN LET f == Call("resolveObjectProperties", st, <<type.properties, <<>>>>)
                  IN  IF ~Ok(f.st) THEN Done(f.st, JsonValue)
                      ELSE Done(CollectedSet(f.st, aliasName, Struct(aliasName, f.r)),
                                StructRef(aliasName))
             ELSE Done(st, StructRef(aliasName))
        ELSE NotDone(st)

\* resolveType, the block for types that have a symbol
resolveTypeSymbol(st, type) ==
    LET symbolName == SymbolName(type)
        typeArgs == type.typeArguments
    IN  IF symbolName = "" THEN NotDone(st)
        ELSE IF symbolName \in {"Array", "ReadonlyArray"} /\ Len(typeArgs) > 0
        THEN LET e == Call("resolveType", st, <<typeArgs[1]>>)
             IN  Done(e.st, ArrayOf(e.r))
        ELSE IF symbolName \in {"Record", "Map"} /\ Len(typeArgs) >= 2
        THEN LET k == Call("resolveType", st, <<typeArgs[1]>>)
                 v == Call("resolveType", k.st, <<typeArgs[2]>>)
             IN  IF ~Ok(k.st) THEN Done(k.st, JsonValue)
                 ELSE IF symbolName = "Record" THEN Done(v.st, RecordOf(k.r, v.r))
                 ELSE Done(v.st, MapOf(k.r, v.r))
        ELSE IF symbolName = "Set" /\ Len(typeArgs) > 0
        THEN LET e == Call("resolveType", st, <<typeArgs[1]>>)
             IN  Done(e.st, SetOf(e.r))
        ELSE IF symbolName = "Date" THEN Done(st, Primitive("string"))
        ELSE IF symbolName = "Promise"
        THEN Done(Throw(st, "Promise", "Promise types cannot be serialized to JSON"), JsonValue)
        ELSE IF isInternalType(symbolName)
        THEN IF symbolName = "__type" /\ IsObject(type) /\ Len(type.properties) > 0
             THEN NotDone(st)
             ELSE Returned(handleValueFallback(st, "Internal TypeScript type cannot be converted",
                                               symbolName, TypeText(type)))
        ELSE IF ~isBuiltInType(type)
        THEN IF ~isFromTypeScriptLib(DeclFile(symbolName))
             THEN LET s1 == Call("resolveTypeByName", st, <<symbolName>>)
                  IN  IF ~Ok(s1) THEN Done(s1, JsonValue)
                      ELSE IF ~HasCollected(s1, symbolName) /\ symbolName \notin s1.processingTypes
                      THEN Returned(handleValueFallback(s1, "Type could not be fully resolved",
                                                        symbolName, TypeText(type)))
                      ELSE Done(s1, StructRef(symbolName))
             ELSE Returned(handleValueFallback(st, "TypeScript lib type cannot be resolved",
                                               symbolName, TypeText(type)))
        ELSE NotDone(st)

\* resolveType, the block for inline object types
resolveTypeInlineObject(st, type) ==
    IF IsObject(type) /\ ~isBuiltInType(type) /\ Len(type.properties) > 0
    THEN LET f == Call("resolveObjectProperties", st, <<type.properties, <<>>>>)
         IN  Done(f.st, Struct("", f.r))
    ELSE NotDone(st)

\* resolveType without its check for type parameters
resolveType_NoTypeParameterCheck(st, type) ==
    LET a == Call("resolveTypeAliasSymbol", st, <<type>>)
    IN  IF a.done THEN Ret(a.st, a.r) ELSE
        LET b == Call("resolveTypeStructural", a.st, <<type>>)
        IN  IF b.done THEN Ret(b.st, b.r) ELSE
            LET c == Call("resolveTypeNodeModules", b.st, <<type>>)
            IN  IF c.done THEN Ret(c.st, c.r) ELSE
                LET d == Call("resolveTypeSymbol", c.st, <<type>>)
                IN  IF d.done THEN Ret(d.st, d.r) ELSE
                    LET e == Call("resolveTypeInlineObject", d.st, <<type>>)
                    IN  IF e.done THEN Ret(e.st, e.r)
                        ELSE handleValueFallback(e.st, "Complex type could not be resolved",
                                                 "", TypeText(type))

resolveType(st, type) ==
    IF type.flags = "typeParameter"
    THEN handleValueFallback(st, "Type parameter cannot be resolved to concrete type",
                             type.symbol, TypeText(type))
    ELSE LET a == Call("resolveTypeAliasSymbol", st, <<type>>)
         IN  IF a.done THEN Ret(a.st, a.r) ELSE
             LET b == Call("resolveTypeStructural", a.st, <<type>>)
             IN  IF b.done THEN Ret(b.st, b.r) ELSE
                 LET c == Call("resolveTypeNodeModules", b.st, <<type>>)
                 IN  IF c.done THEN Ret(c.st, c.r) ELSE
                     LET d == Call("resolveTypeSymbol", c.st, <<type>>)
                     IN  IF d.done THEN Ret(d.st, d.r) ELSE
                         LET e == Call("resolveTypeInlineObject", d.st, <<type>>)
                         IN  IF e.done THEN Ret(e.st, e.r)
                             ELSE handleValueFallback(e.st, "Complex type could not be resolved",
                                                      "", TypeText(type))

resolveInlineUnionType(st, type) ==
    LET unionTypes == type.types
        typeName == type.aliasSymbol
    IN  IF typeName # "" /\ Len(type.aliasTypeArguments) = 0
        THEN LET s1 == Call("resolveTypeByName", st, <<typeName>>)
             IN  IF ~Ok(s1) THEN Ret(s1, JsonValue)
                 ELSE IF ~HasCollected(s1, typeName)
                 THEN handleValueFallback(s1, "Type could not be fully resolved", typeName,
                                          TypeText(type))
                 ELSE Ret(s1, StructRef(typeName))
        ELSE LET nullOrUndefinedTypes == SelectSeq(unionTypes, LAMBDA t : IsNull(t) \/ IsUndefined(t))
                 nonNullTypes == SelectSeq(unionTypes, LAMBDA t : ~IsNull(t) /\ ~IsUndefined(t))
             IN  IF Len(nullOrUndefinedTypes) > 0 /\ Len(nonNullTypes) = 1
                 THEN LET r == Call("resolveType", st, <<nonNullTypes[1]>>)
                      IN  IF ~Ok(r.st) THEN r
                          ELSE Ret(r.st, Option(BoxIfProcessing(r.st, r.r)))
                 ELSE IF Len(nullOrUndefinedTypes) > 0 /\ Len(nonNullTypes) > 1
                 THEN Ret(st, Option(JsonValue))
                 ELSE IF isLiteralUnion(unionTypes)
                 THEN handleValueFallback(st, "Inline literal union cannot be converted (must be a named type)",
                                          "", TypeText(type))
                 ELSE handleValueFallback(st, "Union type could not be resolved", "", TypeText(type))

\* the loop with the discriminant skipped whatever the kind of its literal
resolveVariants_SkipAnyDiscriminant(st, objectTypes, discriminantProp, variants) ==
    IF objectTypes = <<>> THEN Ret(st, variants)
    ELSE LET t == Head(objectTypes)
             discriminantValue ==
                 IF discriminantProp # <<>>
                 THEN LiteralValue(PropType(getProperty(t, discriminantProp[1])[1]))
                 ELSE [sort |-> "undefined", chars |-> <<>>]
             variantName ==
                 IF Truthy(discriminantValue)
                 THEN VariantName("", toVariantName(discriminantValue.chars))
                 ELSE VariantName("Variant", <<ToString(Len(variants))>>)
             kept == SelectSeq(t.properties, LAMBDA p : ~(discriminantProp = <<p.name>>))
             f == Call("resolveObjectProperties", st, <<kept, <<>>>>)
             value == IF Truthy(discriminantValue) THEN <<discriminantValue.chars>> ELSE <<>>
             variant == [name |-> variantName,
                         type |-> IF Len(f.r) > 0 THEN <<Struct(variantName, f.r)>> ELSE <<>>,
                         discriminatorValue |-> value]
         IN  IF ~Ok(f.st) THEN Ret(f.st, variants)
             ELSE Call("resolveVariants", f.st, <<Tail(objectTypes), discriminantProp,
                                  Append(variants, variant)>>)

\* the loop over the object types of a discriminated union
resolveVariants(st, objectTypes, discriminantProp, variants) ==
    IF objectTypes = <<>> THEN Ret(st, variants)
    ELSE LET t == Head(objectTypes)
             discriminantValue ==
                 IF discriminantProp # <<>>
                 THEN LiteralValue(PropType(getProperty(t, discriminantProp[1])[1]))
                 ELSE [sort |-> "undefined", chars |-> <<>>]
             variantName ==
                 IF Truthy(discriminantValue)
                 THEN VariantName("", toVariantName(discriminantValue.chars))
                 ELSE VariantName("Variant", <<ToString(Len(variants))>>)
             \* the discriminant is skipped only if it is a string literal
             kept == SelectSeq(t.properties,
                         LAMBDA p : ~(discriminantProp = <<p.name>>
                                      /\ PropType(p).flags = "stringLiteral"))
             f == Call("resolveObjectProperties", st, <<kept, <<>>>>)
             value == IF Truthy(discriminantValue) THEN <<discriminantValue.chars>> ELSE <<>>
             variant == [name |-> variantName,
                         type |-> IF Len(f.r) > 0 THEN <<Struct(variantName, f.r)>> ELSE <<>>,
                         discriminatorValue |-> value]
         IN  IF ~Ok(f.st) THEN Ret(f.st, variants)
             ELSE Call("resolveVariants", f.st, <<Tail(objectTypes), discriminantProp,
                                  Append(variants, variant)>>)

resolveDiscriminatedUnion(st, name, types) ==
    LET objectTypes == ObjectTypes(types)
    IN  IF objectTypes = <<>>
        THEN Ret(st, [kind |-> "union", name |-> name, variants |-> <<>>, discriminator |-> <<>>])
        ELSE LET discriminantProp == DiscriminantProp(objectTypes)
                 v == Call("resolveVariants", st, <<objectTypes, discriminantProp, <<>>>>)
             IN  Ret(v.st, [kind |-> "union", name |-> name, variants |-> v.r,
                            discriminator |-> discriminantProp])

\* the loop of resolveUnionType; i counts the members from 0
resolveUnionVariants(st, types, i, acc) ==
    IF i >= Len(types) THEN Ret(st, acc)
    ELSE LET t == types[i + 1]
         IN  IF IsNull(t) \/ IsUndefined(t)
             THEN Call("resolveUnionVariants", st, <<types, i + 1, acc>>)
             ELSE LET variantName == IF SymbolName(t) # "" THEN VariantName(SymbolName(t), <<>>)
                                     ELSE VariantName("Variant", <<ToString(i)>>)
                      r == Call("resolveType", st, <<t>>)
                      variant == [name |-> variantName, type |-> <<r.r>>,
                                  discriminatorValue |-> <<>>]
                  IN  IF ~Ok(r.st) THEN Ret(r.st, acc)
                      ELSE Call("resolveUnionVariants", r.st, <<types, i + 1,
                               [variants |-> Append(acc.variants, variant),
                                hasUnresolvableType |-> acc.hasUnresolvableType
                                                        \/ r.r.kind = "json_value"]>>)

resolveUnionType(st, name, types) ==
    LET v == Call("resolveUnionVariants", st, <<types, 0,
                                  [variants |-> <<>>, hasUnresolvableType |-> FALSE]>>)
    IN  IF ~Ok(v.st) THEN Ret(v.st, NullUnion)
        ELSE IF v.r.hasUnresolvableType THEN Ret(v.st, NullUnion)
        ELSE Ret(v.st, [kind |-> "union", name |-> name, variants |-> v.r.variants,
                        discriminator |-> <<>>])

\* the method table of the class TypeResolver
Call(method, st, args) ==
    CASE method = "resolveTypeByName" -> resolveTypeByName(st, args[1])
      [] method = "resolveInterface" -> resolveInterface(st, args[1])
      [] method = "resolveExtends" -> resolveExtends(st, args[1], args[2])
      [] method = "extractFieldsFromType" -> extractFieldsFromType(st, args[1])
      [] method = "resolveProperties" -> resolveProperties(st, args[1], args[2])
      [] method = "resolveProperty" -> resolveProperty(st, args[1])
      [] method = "resolveTypeAlias" -> resolveTypeAlias(st, args[1])
      [] method = "resolveAliasProperties" -> resolveAliasProperties(st, args[1], args[2])
      [] method = "resolveTypeWithNode" -> resolveTypeWithNode(st, args[1], args[2])
      [] method = "resolveTypeFromNode" -> resolveTypeFromNode(st, args[1])
      [] method = "resolveImportedType" -> resolveImportedType(st, args[1])
      [] method = "resolveType" -> resolveType(st, args[1])
      [] method = "resolveTypeAliasSymbol" -> resolveTypeAliasSymbol(st, args[1])
      [] method = "resolveTypeStructural" -> resolveTypeStructural(st, args[1])
      [] method = "resolveTypeNodeModules" -> resolveTypeNodeModules(st, args[1])
      [] method = "resolveTypeSymbol" -> resolveTypeSymbol(st, args[1])
      [] method = "resolveTypeInlineObject" -> resolveTypeInlineObject(st, args[1])
      [] method = "resolveEach" -> resolveEach(st, args[1], args[2])
      [] method = "resolveObjectProperties" -> resolveObjectProperties(st, args[1], args[2])
      [] method = "resolveInlineUnionType" -> resolveInlineUnionType(st, args[1])
      [] method = "resolveDiscriminatedUnion" -> resolveDiscriminatedUnion(st, args[1], args[2])
      [] method = "resolveVariants" -> resolveVariants(st, args[1], args[2], args[3])
      [] method = "resolveUnionType" -> resolveUnionType(st, args[1], args[2])
      [] method = "resolveUnionVariants" -> resolveUnionVariants(st, args[1], args[2], args[3])

(***************************************************************************)
(* The surface programs Init draws from.  N is an interface or an object   *)
(* type alias with one property; M, U and E are declarations it can refer  *)
(* to: M an interface (which may refer back to N), U a type alias, E an    *)
(* enum.                                                                   *)
(***************************************************************************)
\* the declared types of the property of N
PropNodes ==
    <<Kw("string"), Kw("any"), Kw("unknown"), Kw("bigint"), TRef("T"), FnNode, Ref("Date"),
      Ref("N"), Un(<<Ref("N"), NullNode>>), Un(<<Ref("N"), Kw("undefined")>>),
      Arr(Ref("N")), Un(<<Arr(Ref("N")), NullNode>>), Un(<<RefA("Array", <<Ref("N")>>), NullNode>>),
      Tup(<<Ref("N"), Kw("string")>>), Obj(<<Prop("inner", FALSE, Ref("N"))>>),
      Obj(<<Prop("inner", TRUE, Un(<<Kw("string"), NullNode>>))>>),
      RefA("Map", <<Kw("string"), Ref("N")>>), RefA("Set", <<Kw("string")>>),
      RefA("Record", <<Kw("string"), Kw("any")>>),
      Ref("M"), Un(<<Ref("M"), NullNode>>), Ref("U"), Un(<<Ref("U"), NullNode>>), Ref("E"),
      Ref("K"), Ref("W"),
      Un(<<Kw("string"), NullNode>>), Un(<<Kw("string"), Kw("number"), NullNode>>),
      Un(<<Kw("string"), Kw("number")>>), Un(<<StrLit(<<"a">>), StrLit(<<"b">>)>>),
      Un(<<NullNode, Kw("undefined")>>), Un(<<Arr(Kw("string")), NullNode>>),
      RefA("Promise", <<Kw("string")>>),
      Un(<<Arr(RefA("Promise", <<Kw("string")>>)), NullNode>>),
      Un(<<RefA("Array", <<RefA("Promise", <<Kw("string")>>)>>), NullNode>>),
      Un(<<Arr(Ref("Date")), NullNode>>)>>

\* the type parameters N declares: T when its property is typed T
TypeParamsFor(node) == IF node = TRef("T") THEN <<"T">> ELSE <<>>

DeclsOfN ==
    {InterfaceDecl(TypeParamsFor(PropNodes[i]), <<>>, <<Prop("p", q, PropNodes[i])>>) :
        i \in DOMAIN PropNodes, q \in BOOLEAN}
    \cup
    {TypeAliasDecl(TypeParamsFor(PropNodes[i]), Obj(<<Prop("p", q, PropNodes[i])>>)) :
        i \in DOMAIN PropNodes, q \in BOOLEAN}
    \cup
    \* a generic interface whose type parameter has the name of the alias U
    {InterfaceDecl(<<"U">>, <<>>, <<Prop("p", FALSE, Ref("M"))>>)}
    \cup
    \* interfaces that extend M: with a property of their own, and with a property that
    \* M may declare too
    {InterfaceDecl(<<>>, <<"M">>, <<Prop("p", FALSE, Kw("string"))>>),
     InterfaceDecl(<<>>, <<"M">>, <<Prop("s", FALSE, Kw("string"))>>)}

DeclsOfM ==
    {InterfaceDecl(<<>>, <<>>, <<Prop("n", FALSE, Ref("N"))>>),
     InterfaceDecl(<<>>, <<>>, <<Prop("n", FALSE, Un(<<Ref("N"), NullNode>>))>>),
     InterfaceDecl(<<>>, <<>>, <<Prop("s", FALSE, Kw("string"))>>),
     InterfaceDecl(<<>>, <<>>, <<Prop("s", TRUE, Kw("string"))>>)}

DeclsOfU ==
    {\* MixedType = string | number | bigint
     TypeAliasDecl(<<>>, Un(<<Kw("string"), Kw("number"), Kw("bigint")>>)),
     \* a union with an unresolvable member that refers to N
     TypeAliasDecl(<<>>, Un(<<Ref("N"), Kw("bigint")>>)),
     \* a union of resolvable members
     TypeAliasDecl(<<>>, Un(<<Ref("N"), Kw("string")>>)),
     \* a literal union
     TypeAliasDecl(<<>>, Un(<<StrLit(<<"o", "n">>), StrLit(<<"o", "f", "f">>)>>)),
     \* a discriminated union
     TypeAliasDecl(<<>>, Un(<<Obj(<<Prop("kind", FALSE, StrLit(<<"a">>)), Prop("n", FALSE, Ref("N"))>>),
                              Obj(<<Prop("kind", FALSE, StrLit(<<"b">>))>>)>>)),
     \* a discriminated union whose variant has an optional nullable field
     TypeAliasDecl(<<>>, Un(<<Obj(<<Prop("kind", FALSE, StrLit(<<"a">>)),
                                    Prop("n", TRUE, Un(<<Ref("N"), NullNode>>))>>),
                              Obj(<<Prop("kind", FALSE, StrLit(<<"b">>))>>)>>)),
     \* discriminated unions whose discriminant is numeric (the second is 0), boolean,
     \* a string that is empty in one member, and a string in one member and a number
     \* in the other
     TypeAliasDecl(<<>>, Un(<<Obj(<<Prop("kind", FALSE, NumLit(<<"1">>)), Prop("s", FALSE, Kw("string"))>>),
                              Obj(<<Prop("kind", FALSE, NumLit(<<"0">>))>>)>>)),
     TypeAliasDecl(<<>>, Un(<<Obj(<<Prop("ok", FALSE, BoolLit(<<"t", "r", "u", "e">>)),
                                    Prop("s", FALSE, Kw("string"))>>),
                              Obj(<<Prop("ok", FALSE, BoolLit(<<"f", "a", "l", "s", "e">>))>>)>>)),
     TypeAliasDecl(<<>>, Un(<<Obj(<<Prop("kind", FALSE, StrLit(<<>>)), Prop("s", FALSE, Kw("string"))>>),
                              Obj(<<Prop("kind", FALSE, StrLit(<<"b">>))>>)>>)),
     TypeAliasDecl(<<>>, Un(<<Obj(<<Prop("kind", FALSE, StrLit(<<"a", "_", "b">>)), Prop("s", FALSE, Kw("string"))>>),
                              Obj(<<Prop("kind", FALSE, NumLit(<<"2">>)), Prop("s", FALSE, Kw("string"))>>)>>)),
     \* a literal union with a boolean member
     TypeAliasDecl(<<>>, Un(<<StrLit(<<"a">>), BoolLit(<<"t", "r", "u", "e">>)>>)),
     \* a discriminated union with a member that is no object
     TypeAliasDecl(<<>>, Un(<<Obj(<<Prop("kind", FALSE, StrLit(<<"a">>)), Prop("s", FALSE, Kw("string"))>>),
                              Obj(<<Prop("kind", FALSE, StrLit(<<"b">>))>>),
                              Kw("string")>>)),
     \* an alias of a primitive
     TypeAliasDecl(<<>>, Kw("string")),
     \* an alias of a tuple
     TypeAliasDecl(<<>>, Tup(<<Ref("N"), Kw("string")>>))}

DeclOfE == EnumDecl(<<EnumMember("A", "string", <<"a">>), EnumMember("B", "string", <<"b">>)>>)

\* sourceFile.getExportedDeclarations(), in declaration order
ExportedNames == <<"N", "M", "U", "E">>

\* the declarations of M and U: each varies while the other is the first of its pool
FirstOfM == InterfaceDecl(<<>>, <<>>, <<Prop("n", FALSE, Ref("N"))>>)
FirstOfU == TypeAliasDecl(<<>>, Un(<<Kw("string"), Kw("number"), Kw("bigint")>>))
\* an interface with a property typed by the alias U, and the aliases it goes with
MOfU == InterfaceDecl(<<>>, <<>>, <<Prop("u", FALSE, Ref("U"))>>)
LiteralU == TypeAliasDecl(<<>>, Un(<<StrLit(<<"o", "n">>), StrLit(<<"o", "f", "f">>)>>))
DiscriminatedU ==
    TypeAliasDecl(<<>>, Un(<<Obj(<<Prop("kind", FALSE, StrLit(<<"a">>)), Prop("n", FALSE, Ref("N"))>>),
                             Obj(<<Prop("kind", FALSE, StrLit(<<"b">>))>>)>>))
\* an interface without properties, and `type U = M`
EmptyM == InterfaceDecl(<<>>, <<>>, <<>>)
AliasOfM == TypeAliasDecl(<<>>, Ref("M"))
DeclsOfMU ==
    {<<m, FirstOfU>> : m \in DeclsOfM} \cup {<<FirstOfM, u>> : u \in DeclsOfU}
    \cup {<<MOfU, LiteralU>>, <<MOfU, DiscriminatedU>>}
    \cup {<<FirstOfM, AliasOfM>>, <<EmptyM, AliasOfM>>}

\* the sequences over S of length 0..n
SeqsUpTo(S, n) == UNION {[1..k -> S] : k \in 0..n}

\* the lists of root names: declared names, and lists that end with the missing name
\* (resolve() throws at it, so what would follow it is never read)
TypeNameLists ==
    (SeqsUpTo(RootNames, MaxRoots) \ {<<>>})
    \cup {Append(s, Missing) : s \in SeqsUpTo(RootNames, MaxRoots - 1)}

(***************************************************************************)
(* convert(): the file system and the generator.                           *)
(***************************************************************************)
\* a path is the sequence of its segments below the working directory
NoPath == <<>>
OutputPaths == {<<"out.rs">>, <<"gen", "out.rs">>}

\* path.dirname
dirname(path) == SubSeq(path, 1, Len(path) - 1)
\* fs.existsSync for a directory
existsSync(fs, dir) == dir \in fs.dirs
\* fs.mkdirSync(dir, { recursive: true })
mkdirSync(fs, dir) == [fs EXCEPT !.dirs = @ \cup {SubSeq(dir, 1, k) : k \in 0..Len(dir)}]
\* fs.writeFileSync(path, data), the directory of path being there
writeFileSync(fs, path, data) == [fs EXCEPT !.files[path] = <<data>>]

\* generator.generate(collectedTypes): the text is a header followed by one item for
\* each collected type; the generator is given the options and the collected types
\* only, so its warnings hold none of the resolver's
generate(collected) ==
    [rustCode |-> <<"// Generated by ts2rs">> \o [i \in DOMAIN collected |-> collected[i].name],
     convertedTypes |-> [i \in DOMAIN collected |-> collected[i].name],
     warnings |-> <<>>]

(***************************************************************************)
(* run-in-order: the build scheduler (scripts/run-in-order).               *)
(***************************************************************************)
MaxPackages == 3
PackageNames == <<"a", "b", "c", "d">>
Packages == {PackageNames[i] : i \in 1..MaxPackages}
ExitCodes == {0, 1}

\* the scheduler in a run of the converter: not started
SchedulerIdle ==
    /\ rawGraph = <<>>
    /\ dependencies = <<>>
    /\ running = {}
    /\ completed = {}
    /\ promise = "none"
    /\ processExit = -1
    /\ started = <<>>
    /\ exitLog = <<>>

\* the locals of runGraph(), as checkAndRun and executeTask take them
Locals ==
    [dependencies |-> dependencies, running |-> running, completed |-> completed,
     promise |-> promise, started |-> started]

\* const allDependencies = Object.keys(rawGraph)
allDependencies == DOMAIN rawGraph

\* resolvePromise() / reject(): a settled promise stays as it is
Settle(s, outcome) == IF s.promise = "pending" THEN [s EXCEPT !.promise = outcome] ELSE s

\* executeTask(pkg), up to the spawn of the command
executeTask(s, pkg) ==
    [s EXCEPT !.running = @ \cup {pkg}, !.started[pkg] = @ + 1]

\* for (const pkg of readyToRun) executeTask(pkg)
RECURSIVE executeAll(_, _)
executeAll(s, pkgs) ==
    IF pkgs = {} THEN s
    ELSE LET pkg == CHOOSE p \in pkgs : TRUE
         IN  executeAll(executeTask(s, pkg), pkgs \ {pkg})

\* the filter of checkAndRun, with every package ready whatever is left of its set
readyToRun_IgnoreDependencies(s) ==
    {pkg \in allDependencies : pkg \notin s.completed /\ pkg \notin s.running}

\* allDependencies.filter(...): not completed, not running, no dependency left
readyToRun(s) ==
    {pkg \in allDependencies :
        /\ pkg \notin s.completed
        /\ pkg \notin s.running
        /\ s.dependencies[pkg] = {}}

\* checkAndRun without its cycle detection
checkAndRun_NoCycleDetection(s) ==
    IF Cardinality(s.completed) = Cardinality(allDependencies)
    THEN Settle(s, "resolved")
    ELSE executeAll(s, readyToRun(s))

checkAndRun(s) ==
    IF /\ readyToRun(s) = {}
       /\ s.running = {}
       /\ Cardinality(s.completed) < Cardinality(allDependencies)
    THEN Settle(s, "rejected")
    ELSE IF Cardinality(s.completed) = Cardinality(allDependencies)
    THEN Settle(s, "resolved")
    ELSE executeAll(s, readyToRun(s))

\* the resolver in a run of the scheduler: not constructed
ResolverIdle ==
    /\ decls = <<>>
    /\ options = [strict |-> FALSE, typeNames |-> <<>>]
    /\ collectedTypes = <<>>
    /\ processingTypes = {}
    /\ typeParameters = {}
    /\ warnings = <<>>
    /\ pc = "idle"
    /\ idx = 1
    /\ error = NoError
    /\ setLog = <<>>
    /\ outputPath = NoPath
    /\ fileSystem = [dirs |-> {<<>>}, files |-> [p \in OutputPaths |-> <<>>]]
    /\ result = <<>>
    /\ framesKept = TRUE
    /\ dispatchLog = <<>>

\* the graph file read: any keys among the packages, any dependency lists over them
\* (a dependency that is not a key, a package depending on itself, cycles)
SchedulerInit ==
    /\ ResolverIdle
    /\ \E keys \in SUBSET Packages : rawGraph \in [keys -> SUBSET Packages]
    /\ dependencies = <<>>
    /\ running = {}
    /\ completed = {}
    /\ promise = "none"
    /\ processExit = -1
    /\ started = [pkg \in Packages |-> 0]
    /\ exitLog = [pkg \in Packages |-> <<>>]

\* the locals after a call of checkAndRun
Scheduled(s) ==
    /\ dependencies' = s.dependencies
    /\ running' = s.running
    /\ completed' = s.completed
    /\ promise' = s.promise
    /\ started' = s.started

\* runGraph(): the maps are built, the promise is created and checkAndRun() starts
\* the engine
RunGraph ==
    /\ promise = "none"
    /\ processExit = -1
    /\ Scheduled(checkAndRun([Locals EXCEPT !.dependencies = rawGraph,
                                            !.promise = "pending"]))
    /\ UNCHANGED <<rawGraph, processExit, exitLog>>
    /\ UNCHANGED resolverVars

\* proc.exited.then((code) => ...): the command of a running package exits
Exited ==
    /\ processExit = -1
    /\ \E pkg \in running, code \in ExitCodes :
          /\ exitLog' = [exitLog EXCEPT ![pkg] = Append(@, code)]
          /\ IF code # 0
             THEN /\ running' = running \ {pkg}
                  /\ processExit' = code
                  /\ UNCHANGED <<dependencies, completed, promise, started>>
             ELSE /\ Scheduled(checkAndRun(
                        [Locals EXCEPT !.running = @ \ {pkg},
                                       !.completed = @ \cup {pkg},
                                       !.dependencies =
                                           [p \in DOMAIN @ |-> @[p] \ {pkg}]]))
                  /\ UNCHANGED processExit
    /\ UNCHANGED rawGraph
    /\ UNCHANGED resolverVars

\* runGraph().catch(err => ... process.exit(1))
Fatal ==
    /\ promise = "rejected"
    /\ processExit = -1
    /\ processExit' = 1
    /\ UNCHANGED <<rawGraph, dependencies, running, completed, promise, started, exitLog>>
    /\ UNCHANGED resolverVars

SchedulerNext == RunGraph \/ Exited \/ Fatal

SchedulerSpec == SchedulerInit /\ [][SchedulerNext]_vars

\* every command that runs exits, and the callbacks queued are run
FairSchedulerSpec ==
    SchedulerSpec /\ WF_vars(RunGraph) /\ WF_vars(Exited) /\ WF_vars(Fatal)

(***************************************************************************)
(* resolve()                                                               *)
(***************************************************************************)
Init ==
    /\ \E n \in DeclsOfN, mu \in DeclsOfMU :
          decls = [name \in DeclNames |->
                      CASE name = "N" -> n [] name = "M" -> mu[1] [] name = "U" -> mu[2]
                        [] name = "E" -> DeclOfE]
    /\ \E strict \in BOOLEAN, typeNames \in {<<>>} \cup TypeNameLists :
          options = [strict |-> strict, typeNames |-> typeNames]
    /\ collectedTypes = <<>>
    /\ processingTypes = {}
    /\ typeParameters = {}
    /\ warnings = <<>>
    /\ pc = "running"
    /\ idx = 1
    /\ error = NoError
    /\ setLog = <<>>
    /\ outputPath = NoPath
    /\ fileSystem = [dirs |-> {<<>>}, files |-> [p \in OutputPaths |-> <<>>]]
    /\ result = <<>>
    /\ framesKept = TRUE
    /\ dispatchLog = <<>>
    /\ SchedulerIdle

\* the resolver's fields, as the methods take them
Fields ==
    [collectedTypes |-> collectedTypes, processingTypes |-> processingTypes,
     typeParameters |-> typeParameters, warnings |-> warnings, error |-> NoError,
     setLog |-> setLog, depth |-> 0, framesKept |-> framesKept,
     dispatchLog |-> dispatchLog]

\* the resolver's fields after the call; an exception leaves resolve()
Outcome(st) ==
    /\ collectedTypes' = st.collectedTypes
    /\ processingTypes' = st.processingTypes
    /\ typeParameters' = st.typeParameters
    /\ warnings' = st.warnings
    /\ setLog' = st.setLog
    /\ framesKept' = st.framesKept
    /\ dispatchLog' = st.dispatchLog
    /\ error' = st.error
    /\ pc' = IF Ok(st) THEN "running" ELSE "threw"
    /\ idx' = IF Ok(st) THEN idx + 1 ELSE idx
    /\ UNCHANGED <<decls, options, outputPath, fileSystem, result>>
    /\ UNCHANGED schedulerVars

\* one iteration of a loop of resolve(): this.resolveTypeByName(sourceFile, typeName)
ResolveRoot(typeName) == Outcome(Call("resolveTypeByName", Fields, <<typeName>>))

\* for (const typeName of this.options.typeNames)
ResolveNamed ==
    /\ pc = "running"
    /\ Len(options.typeNames) > 0
    /\ idx <= Len(options.typeNames)
    /\ ResolveRoot(options.typeNames[idx])

\* resolveAllExportedTypes: for (const [name, declarations] of exportedDeclarations)
ResolveExported ==
    /\ pc = "running"
    /\ Len(options.typeNames) = 0
    /\ idx <= Len(ExportedNames)
    /\ ResolveRoot(ExportedNames[idx])

\* return Array.from(this.collectedTypes.values())
Return ==
    /\ pc = "running"
    /\ idx > (IF Len(options.typeNames) > 0 THEN Len(options.typeNames) ELSE Len(ExportedNames))
    /\ pc' = "returned"
    /\ UNCHANGED <<decls, options, collectedTypes, processingTypes, typeParameters, warnings,
                   idx, error, setLog, outputPath, fileSystem, result, framesKept,
                   dispatchLog>>
    /\ UNCHANGED schedulerVars

\* convert(), from the return of resolver.resolve() on
Convert ==
    /\ pc = "returned"
    /\ \E path \in OutputPaths \cup {NoPath} :
          /\ outputPath' = path
          /\ IF Len(collectedTypes) = 0
             THEN /\ result' = <<[rustCode |-> <<"// No types found to convert">>,
                                  convertedTypes |-> <<>>,
                                  warnings |-> <<Warning("No exportable types found in the entry file",
                                                         "", "")>>]>>
                  /\ UNCHANGED fileSystem
             ELSE /\ result' = <<generate(collectedTypes)>>
                  /\ fileSystem' =
                        IF path # NoPath
                        THEN LET outputDir == dirname(path)
                                 made == IF ~existsSync(fileSystem, outputDir)
                                         THEN mkdirSync(fileSystem, outputDir)
                                         ELSE fileSystem
                             IN  writeFileSync(made, path, generate(collectedTypes).rustCode)
                        ELSE fileSystem
    /\ pc' = "converted"
    /\ UNCHANGED <<decls, options, collectedTypes, processingTypes, typeParameters, warnings,
                   idx, error, setLog, framesKept, dispatchLog>>
    /\ UNCHANGED schedulerVars

Next == ResolveNamed \/ ResolveExported \/ Return \/ Convert

Spec == Init /\ [][Next]_vars

(***************************************************************************)
(* What the properties below read off a state.                             *)
(***************************************************************************)
\* the names a type node mentions: keywords and referenced type names
RECURSIVE NodeNames(_)
NodeNames(node) ==
    CASE node.kind = "Keyword" -> {node.text}
      [] node.kind = "TypeReference" ->
            {node.typeName}
            \cup UNION {NodeNames(node.typeArguments[i]) : i \in DOMAIN node.typeArguments}
      [] node.kind = "ArrayType" -> NodeNames(node.elementType)
      [] node.kind = "TupleType" ->
            UNION {NodeNames(node.elements[i]) : i \in DOMAIN node.elements}
      [] node.kind = "UnionType" ->
            UNION {NodeNames(node.types[i]) : i \in DOMAIN node.types}
      [] node.kind = "TypeLiteral" ->
            UNION {NodeNames(node.members[i].typeNode) : i \in DOMAIN node.members}
      [] OTHER -> {}

\* the names the declaration of name mentions
DeclMentions(name) ==
    LET d == decls[name]
    IN  CASE d.kind = "interface" ->
                UNION {NodeNames(d.properties[i].typeNode) : i \in DOMAIN d.properties}
          [] d.kind = "type_alias" -> NodeNames(d.typeNode)
          [] OTHER -> {}

\* the program spells any or unknown somewhere
MentionsAnyOrUnknown ==
    \E name \in DOMAIN decls : DeclMentions(name) \cap {"any", "unknown"} # {}

\* the resolved types a resolved type holds directly
Children(t) ==
    CASE t.kind \in {"array", "set"} -> {t.elementType}
      [] t.kind = "tuple" -> Range(t.elements)
      [] t.kind \in {"record", "map"} -> {t.keyType, t.valueType}
      [] t.kind \in {"option", "box"} -> {t.innerType}
      [] t.kind = "struct" -> {t.fields[i].type : i \in DOMAIN t.fields}
      [] OTHER -> {}

\* a resolved type and every resolved type within it
RECURSIVE SubTypes(_)
SubTypes(t) == {t} \cup UNION {SubTypes(c) : c \in Children(t)}

\* the resolved types directly under a collected entry: a struct's field types, the
\* payload field types of a discriminated union's variants, the variant types of a
\* general union, the aliased type of a type alias
TopTypes(entry) ==
    LET type == entry.type
    IN  CASE type.kind = "struct" -> {type.fields[i].type : i \in DOMAIN type.fields}
          [] type.kind = "union" /\ type.discriminator # <<>> ->
                UNION {UNION {{v.type[j].fields[i].type : i \in DOMAIN v.type[j].fields} :
                                j \in DOMAIN v.type} : v \in Range(type.variants)}
          [] type.kind = "union" /\ type.discriminator = <<>> ->
                UNION {Range(v.type) : v \in Range(type.variants)}
          [] type.kind = "type_alias" -> {type.aliasedType}
          [] OTHER -> {}

\* every resolved type that occurs in the collected set
AllTypes == UNION {UNION {SubTypes(t) : t \in TopTypes(e)} : e \in Range(collectedTypes)}

(***************************************************************************)
(* Properties of resolve().                                                *)
(***************************************************************************)

\* the resolved type of field p of the collected struct N, as a sequence of at most one
FieldOfN ==
    LET entries == SelectSeq(collectedTypes, LAMBDA e : e.name = "N" /\ e.type.kind = "struct")
    IN  IF entries = <<>> THEN <<>>
        ELSE [i \in DOMAIN entries[1].type.fields |-> entries[1].type.fields[i].type]

\* the property p of N, and the type node N declares for it
PropOfN ==
    IF decls["N"].kind = "interface" THEN decls["N"].properties[1]
    ELSE decls["N"].typeNode.members[1]

NodeOfN == PropOfN.typeNode

\* C1: in strict mode no json_value occurs in the collected set when resolve() returns;
\* stated for the programs that spell neither any nor unknown, whose json_value the
\* README exempts
C1_StrictNoJsonValue ==
    (options.strict /\ pc = "returned" /\ ~MentionsAnyOrUnknown) => JsonValue \notin AllTypes

\* C2: in non-strict mode a json_value that does not come from any or unknown is
\* accompanied by a warning
C2_JsonValueHasWarning ==
    (~options.strict /\ ~MentionsAnyOrUnknown /\ JsonValue \in AllTypes) => warnings # <<>>

\* t reaches struct_ref(name) without passing through option, array, box, record, map
\* or set: directly, through a tuple, or through an anonymous inline struct
RECURSIVE Unguarded(_, _)
Unguarded(t, name) ==
    CASE t.kind = "struct" ->
            IF t.name = "" THEN \E i \in DOMAIN t.fields : Unguarded(t.fields[i].type, name)
            ELSE t.name = name
      [] t.kind = "tuple" -> \E i \in DOMAIN t.elements : Unguarded(t.elements[i], name)
      [] OTHER -> FALSE

\* C3: no collected struct holds a struct_ref to itself outside a type that provides
\* indirection
C3_RecursionIndirection ==
    \A e \in Range(collectedTypes) :
        e.type.kind = "struct" =>
            \A i \in DOMAIN e.type.fields : ~Unguarded(e.type.fields[i].type, e.name)

\* the struct references in the collected set: the named structs without fields
StructRefs == {t \in AllTypes : t.kind = "struct" /\ t.fields = <<>> /\ t.name # ""}

\* C4: when resolve() returns, every struct_ref with a non-empty name names a key of
\* the collected set
C4_NoDanglingRef ==
    pc = "returned" => \A t \in StructRefs : HasCollected(Fields, t.name)

\* the list of roots resolve() walks
Roots == IF Len(options.typeNames) > 0 THEN options.typeNames ELSE ExportedNames

\* resolve() is about to call resolveTypeByName for its next root
AtRoot == pc = "running" /\ idx <= Len(Roots)

\* C5: within one run collectedTypes.set is called at most once for each name, an entry
\* once written is never changed, and a call of resolveTypeByName for a name that is
\* already collected changes nothing in collectedTypes, processingTypes, typeParameters
\* or warnings
C5_CollectedOnce ==
    [][/\ \A i, j \in DOMAIN setLog' : setLog'[i] = setLog'[j] => i = j
       /\ \A i \in DOMAIN collectedTypes :
             i \in DOMAIN collectedTypes' /\ collectedTypes'[i] = collectedTypes[i]
       /\ (AtRoot /\ HasCollected(Fields, Roots[idx]))
             => UNCHANGED <<collectedTypes, processingTypes, typeParameters, warnings>>]_vars

\* a root was requested again after an earlier request collected it
C5_Witness ==
    /\ idx = 3
    /\ Len(options.typeNames) = 2
    /\ options.typeNames[1] = options.typeNames[2]
    /\ setLog = <<options.typeNames[1]>>
    /\ HasCollected(Fields, options.typeNames[1])

\* C6: no option node in the collected set wraps an option
C6_OptionNormalForm ==
    \A t \in AllTypes : t.kind = "option" => t.innerType.kind # "option"

\* an optional property whose type already resolved to option was collected
C6_Witness ==
    /\ PropOfN.hasQuestionToken
    /\ NodeOfN = Un(<<Kw("string"), NullNode>>)
    /\ FieldOfN = <<Option(Primitive("string"))>>

\* N declares its property p as N | null
SelfNullable == NodeOfN = Un(<<Ref("N"), NullNode>>)

\* C7: a property typed N | null inside the declaration of N resolves to
\* option(box(struct_ref(N))), for an interface and for an object type alias
C7_SelfNullableBoxed ==
    (SelfNullable /\ FieldOfN # <<>>) => FieldOfN = <<Option(Box(StructRef("N")))>>

\* U is a union alias with a variant that resolves to json_value
UnresolvableU ==
    decls["U"] \in {TypeAliasDecl(<<>>, Un(<<Kw("string"), Kw("number"), Kw("bigint")>>)),
                    TypeAliasDecl(<<>>, Un(<<Ref("N"), Kw("bigint")>>))}

\* C8: in non-strict mode a union alias with an unresolvable variant is never collected,
\* and a field whose type is that alias resolves to json_value, with a warning that
\* names the alias
C8_UnresolvableUnionUse ==
    (~options.strict /\ UnresolvableU) =>
        /\ ~HasCollected(Fields, "U")
        /\ (NodeOfN = Ref("U") /\ FieldOfN # <<>>) =>
              /\ FieldOfN \in {<<JsonValue>>, <<Option(JsonValue)>>}
              /\ \E i \in DOMAIN warnings :
                    warnings[i].reason = "Type could not be fully resolved"
                    /\ warnings[i].subject = "U"

\* C9: resolveTypeByName for a root that has no declaration throws "Type declaration
\* not found" and leaves collectedTypes, processingTypes and warnings as they were
C9_NotFoundRaises ==
    [][(AtRoot /\ ~findTypeDeclaration(Roots[idx]) /\ ~HasCollected(Fields, Roots[idx]))
          => /\ pc' = "threw"
             /\ error' = [name |-> "TypeConversionError", typeName |-> Roots[idx],
                          reason |-> "Type declaration not found"]
             /\ UNCHANGED <<collectedTypes, processingTypes, warnings>>]_vars

\* resolve() threw at an undeclared root after an earlier root was collected
C9_Witness ==
    /\ pc = "threw"
    /\ Roots[idx] = Missing
    /\ error.reason = "Type declaration not found"
    /\ collectedTypes # <<>>

\* C10: no run returns normally after resolving a declaration that spells Promise
C10_PromiseFatal ==
    ~(pc = "returned" /\ HasCollected(Fields, "N") /\ "Promise" \in DeclMentions("N"))


\* resolve() is about to resolve N, which is not collected yet
AtRootN == AtRoot /\ Roots[idx] = "N" /\ ~HasCollected(Fields, "N")

\* the field a resolved type becomes under the question token of p
FieldTypeOfN(t) == IF PropOfN.hasQuestionToken THEN <<Option(t)>> ELSE <<t>>

\* C11: a property typed any or unknown resolves to json_value (directly, and as the
\* value type of a Record) with no warning appended and nothing thrown, in strict mode
\* and in non-strict mode alike
C11_AnyNoWarning ==
    [][/\ (AtRootN /\ NodeOfN \in {Kw("any"), Kw("unknown")})
            => /\ pc' = "running"
               /\ warnings' = warnings
               /\ FieldOfN' = FieldTypeOfN(JsonValue)
       /\ (AtRootN /\ NodeOfN = RefA("Record", <<Kw("string"), Kw("any")>>))
            => /\ pc' = "running"
               /\ warnings' = warnings
               /\ FieldOfN' = FieldTypeOfN(RecordOf(Primitive("string"), JsonValue))]_vars

\* a strict run returned after it resolved a property typed unknown
C11_Witness ==
    /\ pc = "returned"
    /\ options.strict
    /\ NodeOfN = Kw("unknown")
    /\ FieldOfN = <<JsonValue>>
    /\ warnings = <<>>


\* the warning of resolveType for the type parameter T
WarningForT == Warning("Type parameter cannot be resolved to concrete type", "T", "T")

\* C12: resolving N whose property is typed by its type parameter T appends, in
\* non-strict mode, exactly one warning, which names T, and the field resolves to
\* json_value; in strict mode it throws a TypeConversionError; no run ever holds two
\* warnings that name T
C12_TypeParameterFallback ==
    [][/\ (AtRootN /\ NodeOfN = TRef("T"))
            => IF options.strict
               THEN /\ pc' = "threw"
                    /\ error'.name = "TypeConversionError"
                    /\ ~HasCollected(Fields, "N")'
               ELSE /\ pc' = "running"
                    /\ warnings' = Append(warnings, WarningForT)
                    /\ FieldOfN' = FieldTypeOfN(JsonValue)
       /\ \A i, j \in DOMAIN warnings' :
             (warnings'[i].subject = "T" /\ warnings'[j].subject = "T") => i = j]_vars

\* a non-strict run returned after it resolved an optional property typed T
C12_Witness ==
    /\ pc = "returned"
    /\ ~options.strict
    /\ NodeOfN = TRef("T")
    /\ PropOfN.hasQuestionToken
    /\ FieldOfN = <<Option(JsonValue)>>
    /\ \E i \in DOMAIN warnings : warnings[i] = WarningForT


\* the resolved types of the fields of the collected struct M
FieldsOfM ==
    LET entries == SelectSeq(collectedTypes, LAMBDA e : e.name = "M" /\ e.type.kind = "struct")
    IN  IF entries = <<>> THEN <<>>
        ELSE [i \in DOMAIN entries[1].type.fields |-> entries[1].type.fields[i].type]

TypeParameterReason == "Type parameter cannot be resolved to concrete type"

\* C13: a reference to a declared alias is never resolved as a type parameter: no
\* warning and no error of the type-parameter fallback names a declared alias, and the
\* field of M that is typed by the resolvable alias U is struct_ref(U) (boxed when U is
\* being resolved) whatever type parameters were in scope when M was resolved
C13_AliasNotTypeParameter ==
    /\ \A i \in DOMAIN warnings :
          warnings[i].reason = TypeParameterReason => warnings[i].subject \notin DOMAIN decls
    /\ (pc = "threw" /\ error.reason = TypeParameterReason) => error.typeName \notin DOMAIN decls
    /\ (decls["M"] = MOfU /\ FieldsOfM # <<>>)
          => FieldsOfM \in {<<StructRef("U")>>, <<Box(StructRef("U"))>>}


\* the collected union U with a discriminator, as a sequence of at most one
DiscriminatedOfU ==
    LET entries == SelectSeq(collectedTypes,
                       LAMBDA e : e.name = "U" /\ e.type.kind = "union" /\ e.type.discriminator # <<>>)
    IN  IF entries = <<>> THEN <<>> ELSE <<entries[1].type>>

\* the members of the union U that are object types
ObjectMembersOfU == SelectSeq(decls["U"].typeNode.types, LAMBDA n : n.kind = "TypeLiteral")

\* the literal node object member i of the union U declares for the property called name
DiscriminantNode(i, name) ==
    LET member == ObjectMembersOfU[i]
    IN  SelectSeq(member.members, LAMBDA p : p.name = name)[1].typeNode

\* the names of the fields of a variant's payload
PayloadNames(variant) ==
    IF variant.type = <<>> THEN {}
    ELSE {variant.type[1].fields[i].name : i \in DOMAIN variant.type[1].fields}

C15_DiscriminatorValueCarried ==
    \A u \in Range(DiscriminatedOfU) :
        \A i \in DOMAIN u.variants :
            LET value == DiscriminantNode(i, u.discriminator[1]).value
            IN  /\ u.variants[i].discriminatorValue = <<value>>
                /\ u.variants[i].name = VariantName("", toVariantName(value))


\* the fields of the collected struct N
StructFieldsOfN ==
    LET entries == SelectSeq(collectedTypes, LAMBDA e : e.name = "N" /\ e.type.kind = "struct")
    IN  IF entries = <<>> THEN <<>> ELSE entries[1].type.fields

\* the names of the properties an interface declaration declares
PropertyNames(d) == {d.properties[i].name : i \in DOMAIN d.properties}

\* C16: the struct collected for an interface N that extends M has a field for every
\* property of M and every property of N, each field name once; where N declares a
\* property M declares too, the field is that of N's own property
C16_ExtendsFlattened ==
    (decls["N"].kind = "interface" /\ decls["N"].extends = <<"M">> /\ StructFieldsOfN # <<>>)
        => LET fields == StructFieldsOfN
           IN  /\ {fields[i].name : i \in DOMAIN fields}
                      = PropertyNames(decls["M"]) \cup PropertyNames(decls["N"])
               /\ \A i, j \in DOMAIN fields : fields[i].name = fields[j].name => i = j
               /\ \A i \in DOMAIN fields :
                     fields[i].name = PropOfN.name
                         => fields[i] = Field(PropOfN.name, Primitive("string"), FALSE)


\* the struct the nested external alias W is materialized as
StructOfW == Struct("W", <<Field("packages", Option(ArrayOf(Primitive("string"))), TRUE)>>)

\* C17: resolving N whose property is typed by the nested external alias W does not
\* throw; it collects W as a struct under the alias name and the property resolves to
\* struct_ref(W)
C17_NestedExternalMaterialized ==
    [][(AtRootN /\ NodeOfN = Ref("W"))
          => /\ pc' = "running"
             /\ \E i \in DOMAIN collectedTypes' :
                   collectedTypes'[i] = [name |-> "W", type |-> StructOfW]
             /\ FieldOfN' = FieldTypeOfN(StructRef("W"))]_vars


\* C18: in non-strict mode a property whose type is the inline union null | undefined
\* resolves to option(json_value), and one warning is appended
C18_NullUndefinedUnion ==
    [][(AtRootN /\ ~options.strict /\ NodeOfN = Un(<<NullNode, Kw("undefined")>>))
          => /\ pc' = "running"
             /\ FieldOfN' = <<Option(JsonValue)>>
             /\ Len(warnings') = Len(warnings) + 1]_vars


\* a occurs in b as a subsequence: every element of a, in the order of a
IsSubsequence(a, b) ==
    \E f \in [DOMAIN a -> DOMAIN b] :
        /\ \A i \in DOMAIN a : b[f[i]] = a[i]
        /\ \A i, j \in DOMAIN a : i < j => f[i] < f[j]

\* C19: whenever convert() returns normally with outputPath set, the returned text has
\* been written to that path and the directory of the path exists, whatever resolution
\* collected, nothing included.
C19_OutputWritten ==
    (pc = "converted" /\ outputPath # NoPath)
        => /\ fileSystem.files[outputPath] = <<result[1].rustCode>>
           /\ dirname(outputPath) \in fileSystem.dirs

\* C20: every warning the resolver appended during the run appears, in the order of
\* occurrence, in the warnings of the result convert() returns.
C20_WarningsReturned ==
    pc = "converted" => IsSubsequence(warnings, result[1].warnings)


\* C21: in every interleaving of the running commands, the command of a package is
\* started only when every one of its dependencies is a package whose command has
\* exited with code 0.
C21_StartedAfterDependencies ==
    [][\A pkg \in allDependencies :
          started'[pkg] # started[pkg]
              => \A dep \in rawGraph[pkg] :
                    dep \in allDependencies /\ exitLog'[dep] = <<0>>]_vars

C21_Witness ==
    /\ allDependencies = Packages
    /\ rawGraph["b"] = {"a"}
    /\ completed = {"a"}
    /\ running = {"b", "c"}
    /\ started["b"] = 1

\* the packages that can complete when every command exits with code 0
RECURSIVE CanComplete(_)
CanComplete(done) ==
    LET more == {pkg \in allDependencies : rawGraph[pkg] \subseteq done}
    IN  IF more = done THEN done ELSE CanComplete(more)
\* the graph is acyclic and every dependency is a key of it
AllCanStart == CanComplete({}) = allDependencies
\* some command exited with another code than 0
CommandFailed == \E pkg \in Packages : \E i \in DOMAIN exitLog[pkg] : exitLog[pkg][i] # 0

\* C30: when every command exits with code 0 the run reaches a verdict: no package is
\* started twice; over a graph in which every package can start the run resolves, and
\* it resolves only after every package was started once and has completed; over a
\* graph in which some package can never start the run rejects.
C30_Verdict ==
    /\ [](\A pkg \in Packages : started[pkg] <= 1)
    /\ [](promise = "resolved"
            => completed = allDependencies /\ \A pkg \in allDependencies : started[pkg] = 1)
    /\ AllCanStart => <>(promise = "resolved" \/ CommandFailed)
    /\ ~AllCanStart => <>(promise = "rejected" \/ CommandFailed)

C30_Witness ==
    /\ allDependencies = Packages
    /\ rawGraph["c"] = {"a", "b"}
    /\ rawGraph["b"] = {"a"}
    /\ promise = "resolved"
    /\ ~CommandFailed


C23_StackDiscipline ==
    /\ framesKept
    /\ processingTypes = {}
    /\ typeParameters = {}

C23_Witness ==
    /\ pc = "threw"
    /\ options.strict
    /\ decls["N"].typeParameters # <<>>
    /\ PropOfN.typeNode = TRef("T")
    /\ error.reason = TypeParameterReason


\* the requests of a root that an earlier root of the run already made
RootRequestedBefore == AtRoot /\ \E j \in 1..(idx - 1) : Roots[j] = Roots[idx]

\* C24: re-requesting a name is idempotent, whether the name was collected or not: no
\* name is dispatched to resolveInterface / resolveTypeAlias / resolveEnum twice in a
\* run, and a root requested a second time leaves collectedTypes and warnings as they
\* were.
C24_RequestIdempotent ==
    [][/\ \A i, j \in DOMAIN dispatchLog' : dispatchLog'[i] = dispatchLog'[j] => i = j
       /\ RootRequestedBefore
            => (pc' = "running" => collectedTypes' = collectedTypes /\ warnings' = warnings)]_vars


\* resolve() over a list of roots, as one call: the loop over options.typeNames, left at
\* the first exception
RECURSIVE resolveRoots(_, _)
resolveRoots(st, typeNames) ==
    IF typeNames = <<>> \/ ~Ok(st) THEN st
    ELSE resolveRoots(Call("resolveTypeByName", st, <<Head(typeNames)>>), Tail(typeNames))

\* the fields of a resolver just constructed
NewFields ==
    [collectedTypes |-> <<>>, processingTypes |-> {}, typeParameters |-> {}, warnings |-> <<>>,
     error |-> NoError, setLog |-> <<>>, depth |-> 0, framesKept |-> TRUE, dispatchLog |-> <<>>]

\* the entries of collectedTypes, their insertion order left out
EntriesOf(st) == {st.collectedTypes[i] : i \in DOMAIN st.collectedTypes}
Reversed(s) == [i \in DOMAIN s |-> s[Len(s) + 1 - i]]

\* C25: the result of resolve() does not depend on the order of the root names: over the
\* same declarations, a run over typeNames and a run over typeNames reversed both return
\* or both raise, and when they return they collect the same names, each with the same IR.
C25_RootOrderIndependent ==
    (pc \in {"returned", "threw"} /\ Len(options.typeNames) = 2)
        => LET other == resolveRoots(NewFields, Reversed(options.typeNames))
           IN  /\ pc = "returned" <=> Ok(other)
               /\ (pc = "returned" /\ Ok(other)) => EntriesOf(Fields) = EntriesOf(other)



\* the element node of `E[] | null` and of `Array<E> | null`
IsNullableArrayNode(node) ==
    /\ node.kind = "UnionType"
    /\ Len(node.types) = 2
    /\ node.types[2] = NullNode
    /\ \/ node.types[1].kind = "ArrayType"
       \/ node.types[1].kind = "TypeReference" /\ node.types[1].typeName = "Array"
                                             /\ Len(node.types[1].typeArguments) > 0
ElementNodeOf(node) ==
    IF node.types[1].kind = "ArrayType" THEN node.types[1].elementType
    ELSE node.types[1].typeArguments[1]
\* the resolver's fields while the property of the object alias N is resolved
InsideN == [Fields EXCEPT !.processingTypes = {"N"}, !.depth = 1]

\* C26: for a property of an object alias declared `E[] | null` or `Array<E> | null`
\* the field resolveTypeWithNode yields is option(array(X)), X being what resolveType
\* yields for E, and the property raises exactly when resolveType raises for E.
C26_ArrayElementAgrees ==
    [][(AtRootN /\ decls["N"].kind = "type_alias" /\ IsNullableArrayNode(NodeOfN))
          => LET x == Call("resolveType", InsideN, <<TypeOf(ElementNodeOf(NodeOfN))>>)
             IN  /\ pc' = "running" <=> Ok(x.st)
                 /\ (pc' = "running" /\ Ok(x.st)) => FieldOfN' = <<Option(ArrayOf(x.r))>>]_vars


\* the entry of collectedTypes for a name, <<>> if there is none
EntryOf(name) == SelectSeq(collectedTypes, LAMBDA e : e.name = name)

\* C27: every entry of collectedTypes holds a declaration of the name it is keyed by,
\* and the entry of the alias `type U = M` of an interface is a struct named U with the
\* fields of M.
C27_KeyedByOwnName ==
    /\ \A i \in DOMAIN collectedTypes : collectedTypes[i].type.name = collectedTypes[i].name
    /\ (decls["U"] = AliasOfM /\ EntryOf("U") # <<>> /\ EntryOf("M") # <<>>)
          => EntryOf("U")[1].type = Struct("U", EntryOf("M")[1].type.fields)


\* C28: when resolve() returns, every requested root is a key of collectedTypes or has a
\* warning about it: no root is dropped silently.
C28_NoRootDroppedSilently ==
    pc = "returned"
        => \A i \in DOMAIN options.typeNames :
              \/ HasCollected(Fields, options.typeNames[i])
              \/ \E w \in DOMAIN warnings : warnings[w].subject = options.typeNames[i]


\* the members of the union U that are neither null nor undefined
NonNullMembersOfU ==
    SelectSeq(decls["U"].typeNode.types, LAMBDA n : n # NullNode /\ n # Kw("undefined"))

\* C29: the Enum or Union collected for the union alias U has one variant for each
\* member that is neither null nor undefined, in the order of the members; the variants
\* of an Enum carry the values of the literal members.
C29_OneVariantPerMember ==
    \A e \in Range(EntryOf("U")) :
        (decls["U"].typeNode.kind = "UnionType" /\ e.type.kind \in {"enum", "union"})
            => /\ Len(e.type.variants) = Len(NonNullMembersOfU)
               /\ e.type.kind = "enum"
                    => \A i \in DOMAIN e.type.variants :
                          e.type.variants[i].value = NonNullMembersOfU[i].value

====
